---- MODULE Spec2Model ----
(***************************************************************************)
(* A model of the task-management use case and the worker template of      *)
(* doc4microservices:                                                      *)
(*   - ReminderWorkerService (use_cases/task_management/reminder_worker.py)*)
(*   - retry_on_failure (service_templates/worker_service_template.py)     *)
(*   - AnalyticsWorkerService (use_cases/task_management/analytics_worker) *)
(*   - TaskService and its routes (use_cases/task_management/api_service)  *)
(* Each subsystem has its own variables, initial predicate, next-state     *)
(* relation and specification; a subsystem's actions leave the variables   *)
(* of the others unchanged.  Time is counted in seconds.                   *)
(***************************************************************************)
EXTENDS Integers, Sequences, FiniteSets, Bags, TLC

VARIABLES
    \* ---- reminder worker
    now,            \* datetime.utcnow(), seconds
    due_soon_sent,  \* Redis due_soon_sent:{id}: NoKey or [exp |-> expiry time]
    overdue_sent,   \* Redis overdue_sent:{id}: NoKey or [val |-> timestamp, exp |-> expiry]
    remCall,        \* the last reminder-worker step and what it did
    dsWindow,       \* per task: task.due_soon events since the key was last written
    odNotif,        \* per task: <<previous, last>> times of an overdue notification
    remSteps,       \* number of reminder-worker steps taken
    \* ---- retry_on_failure
    rt,
    \* ---- graceful shutdown of the two workers
    running,        \* service -> self.running
    started,        \* service -> start() has created its background tasks
    stopCalled,     \* service -> stop() has been called
    pc,             \* background task -> its position
    queue,          \* consumed queue -> messages waiting
    \* ---- analytics: _calculate_productivity_stats as a function of its input
    statActs,       \* the activities list handed to the function
    statOut,        \* its result, or NoStats
    \* ---- analytics worker: events, stores and analytics generation
    activities,     \* the data service's activities collection (a bag of documents)
    creation_pattern, \* users with a Redis creation_pattern:{user_id}:* key
    mongo_stats,    \* user -> statistics stored in the data service, or NoStats
    user_analytics, \* user -> Redis user_analytics:{user_id}, or NoStats
    anaCall,        \* the last analytics step and what it did
    \* ---- task API
    db,             \* the postgres data service: task id -> NoTask or the task
    task_cache,     \* Redis task:{id}: NoTask or the cached task
    apiResp         \* the last HTTP request and its response

VARIABLES
    \* ---- scheduled reminders
    reminders,      \* Redis reminder:{task_id}:{remind_at}: the live keys
    taskStatus,     \* task id -> the status the task API holds
    schedSent,      \* reminder key -> notifications sent for the entry since it was written
    schedCall       \* the last scheduled-reminder step and what it did

VARIABLES
    \* ---- validate_naming.check_docker_compose_files
    namingCall      \* the compose file last checked and the errors reported for it

VARIABLES
    \* ---- TaskBotService.process_file_attachment
    attachCall      \* the last call of process_file_attachment and what it did

VARIABLES
    \* ---- worker template: main() and ScheduledTaskRunner
    wnow,           \* datetime.utcnow() in the worker process, seconds
    shutdown_event, \* the asyncio.Event the signal handler sets
    runner_running, \* ScheduledTaskRunner.running
    runnerPc,       \* position of ScheduledTaskRunner.start()
    current_time,   \* current_time of the iteration under way
    taskIdx,        \* index of the next task of the for loop
    schedTasks,     \* ScheduledTaskRunner.tasks: name -> interval, next_run, last_run
    mainPc,         \* position of main()
    closed,         \* the RabbitMQ connection and the HTTP client are closed
    wLast           \* the last step of the for loop and what it did

VARIABLES
    \* ---- validate_atomic_docs.main
    docCall         \* the last run of validate_atomic_docs main() without argument and its outcome

VARIABLES
    \* ---- TaskService.update_task
    updCall         \* the last call of TaskService.update_task and what it did

remVars == <<now, due_soon_sent, overdue_sent, remCall, dsWindow, odNotif, remSteps>>
retryVars == <<rt>>
shutVars == <<running, started, stopCalled, pc, queue>>
statVars == <<statActs, statOut>>
anaVars == <<activities, creation_pattern, mongo_stats, user_analytics, anaCall>>
apiVars == <<db, task_cache, apiResp>>
schedVars == <<reminders, taskStatus, schedSent, schedCall>>
namingVars == <<namingCall>>
attachVars == <<attachCall>>
workerVars == <<wnow, shutdown_event, runner_running, runnerPc, current_time, taskIdx, schedTasks, mainPc, closed, wLast>>
docsVars == <<docCall>>
updVars == <<updCall>>
vars == <<remVars, retryVars, shutVars, statVars, anaVars, apiVars, schedVars, namingVars, attachVars, workerVars, docsVars, updVars>>
nonRemVars == <<retryVars, shutVars, statVars, anaVars, apiVars, schedVars, namingVars, attachVars, workerVars, docsVars, updVars>>
nonRetryVars == <<remVars, shutVars, statVars, anaVars, apiVars, schedVars, namingVars, attachVars, workerVars, docsVars, updVars>>
nonShutVars == <<remVars, retryVars, statVars, anaVars, apiVars, schedVars, namingVars, attachVars, workerVars, docsVars, updVars>>
nonStatVars == <<remVars, retryVars, shutVars, anaVars, apiVars, schedVars, namingVars, attachVars, workerVars, docsVars, updVars>>
nonAnaVars == <<remVars, retryVars, shutVars, statVars, apiVars, schedVars, namingVars, attachVars, workerVars, docsVars, updVars>>
nonApiVars == <<remVars, retryVars, shutVars, statVars, anaVars, schedVars, namingVars, attachVars, workerVars, docsVars, updVars>>
nonSchedVars == <<remVars, retryVars, shutVars, statVars, anaVars, apiVars, namingVars, attachVars, workerVars, docsVars, updVars>>
nonNamingVars == <<remVars, retryVars, shutVars, statVars, anaVars, apiVars, schedVars, attachVars, workerVars, docsVars, updVars>>
nonAttachVars == <<remVars, retryVars, shutVars, statVars, anaVars, apiVars, schedVars, namingVars, workerVars, docsVars, updVars>>
nonWorkerVars == <<remVars, retryVars, shutVars, statVars, anaVars, apiVars, schedVars, namingVars, attachVars, docsVars, updVars>>
nonDocsVars == <<remVars, retryVars, shutVars, statVars, anaVars, apiVars, schedVars, namingVars, attachVars, workerVars, updVars>>
nonUpdVars == <<remVars, retryVars, shutVars, statVars, anaVars, apiVars, schedVars, namingVars, attachVars, workerVars, docsVars>>

Max(a, b) == IF a >= b THEN a ELSE b

\* int(x / y) for y > 0: Python's int() truncates toward zero.
TruncDiv(x, y) == IF x >= 0 THEN x \div y ELSE -((-x) \div y)

(***************************************************************************)
(* Reminder worker                                                         *)
(***************************************************************************)
DUE_SOON_MINUTES == 60
CHECK_INTERVAL_SECONDS == 300
OVERDUE_RESEND_HOURS == 6
DUE_SOON_TTL_EXTRA == 86400
DUE_SOON_TTL_MIN == 3600
OVERDUE_TTL == 86400

\* Bound on the number of reminder-worker steps explored.
MaxSteps == 4

TaskIds == {1, 2}
NoKey == [none |-> TRUE]

\* Inputs of a call: the seconds from now to the task's due date (true UTC
\* distance), the UTC offset of a timezone-aware due_date (0 also stands for a
\* naive one), whether a Telegram session exists for the task's user, and the
\* seconds between the two clock reads of _process_overdue_task.
DueIns == {-30, 30, 60, 3600, 3630, 3660}
OverdueDueIns == {-7200}
TzOffsets == {0, 7200}
HandlerDelays == {0, 5}
\* Time between two steps of the periodic loop.
TickSteps == {CHECK_INTERVAL_SECONDS, 21300, 21600, 90000}

\* redis.get: an expired key reads as None.
RedisLive(entry) == entry # NoKey /\ entry.exp > now

\* due_date - now after the "timezone handling": now.replace(tzinfo=...) relabels
\* the naive UTC clock with the due date's zone, so the difference is taken
\* between the wall-clock fields.
SecondsUntilDue(dueIn, tz) == dueIn + tz

MinutesUntilDue(dueIn, tz) == TruncDiv(SecondsUntilDue(dueIn, tz), 60)

OverdueMinutes(dueIn, tz) == TruncDiv(-SecondsUntilDue(dueIn, tz), 60)

\* line 226: minutes_until_due <= DUE_SOON_MINUTES and minutes_until_due > 0
DueSoonWindow(m) == m <= DUE_SOON_MINUTES /\ m > 0

\* The handler without its check of the due_soon_sent key.
DueSoonNeverAlreadySent(t) == FALSE

\* lines 206-210: already_sent = redis.get(due_soon_sent:{id})
DueSoonAlreadySent(t) == RedisLive(due_soon_sent[t])

\* The handler with a resend interval of one hour.
OverdueRecentlySentOneHour(t) ==
    /\ RedisLive(overdue_sent[t])
    /\ now - overdue_sent[t].val < 3600

\* lines 254-261: last_sent and utcnow() - fromisoformat(last_sent) < 6 hours
OverdueRecentlySent(t) ==
    /\ RedisLive(overdue_sent[t])
    /\ now - overdue_sent[t].val < OVERDUE_RESEND_HOURS * 3600

\* _process_due_soon_task (lines 202-248), one call for task t.
ProcessDueSoonTask(t, dueIn, tz, session) ==
    LET m == MinutesUntilDue(dueIn, tz)
        hadKey == DueSoonAlreadySent(t)
        fire == ~hadKey /\ DueSoonWindow(m)
    IN  /\ remSteps < MaxSteps
        /\ remSteps' = remSteps + 1
        /\ remCall' = [op |-> "due_soon", task |-> t, dueIn |-> dueIn, tz |-> tz,
                       hadKey |-> hadKey, published |-> fire,
                       attempted |-> fire, notified |-> fire /\ session]
        /\ IF fire
           THEN /\ due_soon_sent' = [due_soon_sent EXCEPT ![t] =
                       [exp |-> now + Max(m * 60 + DUE_SOON_TTL_EXTRA, DUE_SOON_TTL_MIN)]]
                /\ dsWindow' = [dsWindow EXCEPT ![t] = IF RedisLive(due_soon_sent[t]) THEN @ + 1 ELSE 1]
           ELSE UNCHANGED <<due_soon_sent, dsWindow>>
        /\ UNCHANGED <<now, overdue_sent, odNotif>>

\* _process_overdue_task (lines 250-302), one call for task t.
ProcessOverdueTask(t, dueIn, tz, delay, session) ==
    LET m == OverdueMinutes(dueIn, tz)
        recent == OverdueRecentlySent(t)
        fire == ~recent /\ m > 0
    IN  /\ remSteps < MaxSteps
        /\ remSteps' = remSteps + 1
        /\ remCall' = [op |-> "overdue", task |-> t,
                       hadKey |-> recent, published |-> fire,
                       attempted |-> fire, notified |-> fire /\ session]
        /\ IF fire
           THEN /\ now' = now + delay
                /\ overdue_sent' = [overdue_sent EXCEPT ![t] =
                       [val |-> now + delay, exp |-> now + delay + OVERDUE_TTL]]
                /\ odNotif' = IF session
                              THEN [odNotif EXCEPT ![t] = <<@[2], now>>]
                              ELSE odNotif
           ELSE UNCHANGED <<now, overdue_sent, odNotif>>
        /\ UNCHANGED <<due_soon_sent, dsWindow>>

\* _cleanup_old_reminders (lines 528-548): deletes the due_soon_sent keys whose
\* ttl is -1 (no expiry set).
CleanupOldReminders ==
    /\ remSteps < MaxSteps
    /\ remSteps' = remSteps + 1
    /\ remCall' = [op |-> "cleanup"]
    /\ due_soon_sent' = [t \in TaskIds |->
           IF due_soon_sent[t] # NoKey /\ due_soon_sent[t].exp = -1
           THEN NoKey ELSE due_soon_sent[t]]
    /\ UNCHANGED <<now, overdue_sent, dsWindow, odNotif>>

\* asyncio.sleep between two rounds of _periodic_reminder_check (lines 140-149).
ReminderSleep(d) ==
    /\ remSteps < MaxSteps
    /\ remSteps' = remSteps + 1
    /\ remCall' = [op |-> "sleep"]
    /\ now' = now + d
    /\ UNCHANGED <<due_soon_sent, overdue_sent, dsWindow, odNotif>>

InitRem ==
    /\ now = 0
    /\ due_soon_sent = [t \in TaskIds |-> NoKey]
    /\ overdue_sent = [t \in TaskIds |-> NoKey]
    /\ remCall = [op |-> "none"]
    /\ dsWindow = [t \in TaskIds |-> 0]
    /\ odNotif = [t \in TaskIds |-> <<-1, -1>>]
    /\ remSteps = 0

NextRem ==
    \/ \E t \in TaskIds, dueIn \in DueIns, tz \in TzOffsets, session \in BOOLEAN :
          ProcessDueSoonTask(t, dueIn, tz, session) /\ UNCHANGED nonRemVars
    \/ \E t \in TaskIds, dueIn \in OverdueDueIns, tz \in TzOffsets,
          delay \in HandlerDelays, session \in BOOLEAN :
          ProcessOverdueTask(t, dueIn, tz, delay, session) /\ UNCHANGED nonRemVars
    \/ CleanupOldReminders /\ UNCHANGED nonRemVars
    \/ \E d \in TickSteps : ReminderSleep(d) /\ UNCHANGED nonRemVars

(***************************************************************************)
(* retry_on_failure (worker_service_template.py, lines 175-192)            *)
(***************************************************************************)
\* Bound on max_retries explored.
MaxRetries == 3

RetryDelays == {1, 3}
\* What one invocation of the wrapped coroutine can produce.
ReturnValues == {"r1", "r2"}
Exceptions == {"e1", "e2"}

RECURSIVE Pow2(_)
Pow2(n) == IF n = 0 THEN 1 ELSE 2 * Pow2(n - 1)

\* A backoff that grows linearly.
WaitTimeLinear(delay, attempt) == delay * (attempt + 1)

\* line 187: wait_time = delay * (2 ** attempt)
WaitTime(delay, attempt) == delay * Pow2(attempt)

\* The last-attempt test off by one.
RetryLastAttemptOffByOne(attempt, max_retries) == attempt = max_retries + 1

\* line 183: if attempt == max_retries
RetryLastAttempt(attempt, max_retries) == attempt = max_retries

\* line 181: return await func(...), the invocation succeeds with value v.
RetryInvokeReturns(v) ==
    /\ rt.pc = "call"
    /\ rt' = [rt EXCEPT !.pc = "returned", !.result = v,
                        !.invocations = @ + 1,
                        !.outcomes = Append(@, [ok |-> TRUE, val |-> v])]

\* lines 182-189: the invocation raises x.
RetryInvokeRaises(x) ==
    /\ rt.pc = "call"
    /\ IF RetryLastAttempt(rt.attempt, rt.max_retries)
       THEN rt' = [rt EXCEPT !.pc = "raised", !.result = x,
                             !.invocations = @ + 1,
                             !.outcomes = Append(@, [ok |-> FALSE, val |-> x])]
       ELSE rt' = [rt EXCEPT !.pc = "sleep",
                             !.invocations = @ + 1,
                             !.outcomes = Append(@, [ok |-> FALSE, val |-> x]),
                             !.slept = Append(@, WaitTime(rt.delay, rt.attempt))]

\* line 189: asyncio.sleep(wait_time) completes.  Line 179, for attempt in
\* range(max_retries + 1): the loop takes the next attempt, or the range is
\* exhausted and the wrapper returns None.
RetrySleepDone ==
    /\ rt.pc = "sleep"
    /\ IF rt.attempt + 1 <= rt.max_retries
       THEN rt' = [rt EXCEPT !.pc = "call", !.attempt = @ + 1]
       ELSE rt' = [rt EXCEPT !.pc = "returned", !.attempt = @ + 1, !.result = "None"]

RetryIdle == [max_retries |-> 0, delay |-> 0, attempt |-> 0, pc |-> "idle",
              invocations |-> 0, outcomes |-> <<>>, result |-> "None", slept |-> <<>>]

InitRetry ==
    \E m \in 0..MaxRetries, d \in RetryDelays :
        rt = [max_retries |-> m, delay |-> d, attempt |-> 0, pc |-> "call",
              invocations |-> 0, outcomes |-> <<>>, result |-> "None", slept |-> <<>>]

NextRetry ==
    \/ \E v \in ReturnValues : RetryInvokeReturns(v) /\ UNCHANGED nonRetryVars
    \/ \E x \in Exceptions : RetryInvokeRaises(x) /\ UNCHANGED nonRetryVars
    \/ RetrySleepDone /\ UNCHANGED nonRetryVars

(***************************************************************************)
(* Start and stop of ReminderWorkerService and AnalyticsWorkerService      *)
(* (reminder_worker.py lines 82-108, 140-149, 379-386, 528-548;            *)
(*  analytics_worker.py lines 84-111, 145-152, 278-285, 598-633)           *)
(***************************************************************************)
\* Bound on the messages waiting in a queue.
MaxQueue == 2

Services == {"reminder", "analytics"}

\* The background tasks start() creates, by name; a consumer iterates a queue,
\* a loop runs "while self.running".
Consumers == {"reminder-events", "task-events", "analytics-commands"}
Loops == {"reminder-check", "reminder-cleanup", "periodic-analytics", "cleanup"}
BgTasks == Consumers \cup Loops

ServiceOf(task) ==
    IF task \in {"reminder-check", "reminder-events", "reminder-cleanup"}
    THEN "reminder" ELSE "analytics"

TasksOf(svc) == {task \in BgTasks : ServiceOf(task) = svc}

\* start(): self.running = True, then asyncio.create_task for each background task.
Start(svc) ==
    /\ ~started[svc]
    /\ started' = [started EXCEPT ![svc] = TRUE]
    /\ running' = [running EXCEPT ![svc] = TRUE]
    /\ pc' = [task \in BgTasks |->
                 IF ServiceOf(task) # svc THEN pc[task]
                 ELSE IF task \in Consumers THEN "waiting" ELSE "test"]
    /\ UNCHANGED <<stopCalled, queue>>

\* stop(): self.running = False.
Stop(svc) ==
    /\ started[svc]
    /\ ~stopCalled[svc]
    /\ running' = [running EXCEPT ![svc] = FALSE]
    /\ stopCalled' = [stopCalled EXCEPT ![svc] = TRUE]
    /\ UNCHANGED <<started, pc, queue>>

\* "while self.running:" of a loop task
LoopTest(task) == running[ServiceOf(task)]

\* One evaluation of the loop condition: the body starts (it ends in an
\* asyncio.sleep), or the loop and the task end.
LoopStep(task) ==
    /\ task \in Loops
    /\ pc[task] = "test"
    /\ pc' = [pc EXCEPT ![task] = IF LoopTest(task) THEN "sleeping" ELSE "done"]
    /\ UNCHANGED <<running, started, stopCalled, queue>>

\* The body's work and its asyncio.sleep complete.
LoopWake(task) ==
    /\ task \in Loops
    /\ pc[task] = "sleeping"
    /\ pc' = [pc EXCEPT ![task] = "test"]
    /\ UNCHANGED <<running, started, stopCalled, queue>>

\* "async for message in queue_iter": the consumer waits for the next message;
\* only with a message in hand does it test self.running, and break or handle it.
ConsumerReceive(task) ==
    /\ task \in Consumers
    /\ pc[task] = "waiting"
    /\ queue[task] > 0
    /\ queue' = [queue EXCEPT ![task] = @ - 1]
    /\ pc' = [pc EXCEPT ![task] = IF running[ServiceOf(task)] THEN "waiting" ELSE "done"]
    /\ UNCHANGED <<running, started, stopCalled>>

\* Another service publishes a message to the queue a consumer iterates.
Publish(task) ==
    /\ task \in Consumers
    /\ queue[task] < MaxQueue
    /\ queue' = [queue EXCEPT ![task] = @ + 1]
    /\ UNCHANGED <<running, started, stopCalled, pc>>

BgTaskStep(task) == LoopStep(task) \/ LoopWake(task) \/ ConsumerReceive(task)

\* asyncio.gather(*tasks) in start() returns when every background task has ended.
StartReturned(svc) == started[svc] /\ \A task \in TasksOf(svc) : pc[task] = "done"

InitShut ==
    /\ running = [svc \in Services |-> FALSE]
    /\ started = [svc \in Services |-> FALSE]
    /\ stopCalled = [svc \in Services |-> FALSE]
    /\ pc = [task \in BgTasks |-> "notstarted"]
    /\ queue = [task \in Consumers |-> 0]

NextShut ==
    \/ \E svc \in Services : Start(svc) /\ UNCHANGED nonShutVars
    \/ \E svc \in Services : Stop(svc) /\ UNCHANGED nonShutVars
    \/ \E task \in Loops : LoopStep(task) /\ UNCHANGED nonShutVars
    \/ \E task \in Loops : LoopWake(task) /\ UNCHANGED nonShutVars
    \/ \E task \in Consumers : ConsumerReceive(task) /\ UNCHANGED nonShutVars
    \/ \E task \in Consumers : Publish(task) /\ UNCHANGED nonShutVars

(***************************************************************************)
(* AnalyticsWorkerService._calculate_productivity_stats                    *)
(* (analytics_worker.py, lines 462-551)                                    *)
(***************************************************************************)
\* Bound on the length of the activities list explored.
MaxLen == 3

StatTaskIds == {1, 2}
StatActions == {"created", "updated", "completed", "cancelled"}
StatActivity == [task_id : StatTaskIds, action : StatActions, was_overdue : BOOLEAN]

NoStats == [none |-> TRUE]

RECURSIVE SeqsUpTo(_, _)
SeqsUpTo(S, n) ==
    IF n = 0 THEN {<<>>}
    ELSE LET shorter == SeqsUpTo(S, n - 1)
         IN  shorter \cup {Append(q, x) : q \in {r \in shorter : Len(r) = n - 1}, x \in S}

\* lines 472-474: task_activities[activity["task_id"]].append(activity)
GroupKeys(acts) == {acts[i].task_id : i \in 1..Len(acts)}

GroupOf(acts, id) == SelectSeq(acts, LAMBDA a : a.task_id = id)

\* lines 498-500: completed_tasks += 1 for every "completed" activity of every group
CountCompleted(acts) ==
    Cardinality({i \in 1..Len(acts) : acts[i].action = "completed"})

\* lines 509-510: cancelled_tasks += 1 for every "cancelled" activity
CountCancelled(acts) ==
    Cardinality({i \in 1..Len(acts) : acts[i].action = "cancelled"})

\* lines 507-508: overdue_tasks += 1 for every "completed" activity marked was_overdue
CountOverdue(acts) ==
    Cardinality({i \in 1..Len(acts) : acts[i].action = "completed" /\ acts[i].was_overdue})

\* lines 486-487: total_tasks += 1 for every group
CountTasks(acts) == Cardinality(GroupKeys(acts))

\* lines 514-547.  completion_rate = completed_tasks / total_tasks is kept as the
\* fraction rate_num / rate_den (0 / 1 when there is no task).
ProductivityStats(acts) ==
    LET total == CountTasks(acts)
        completed == CountCompleted(acts)
        cancelled == CountCancelled(acts)
    IN  [total_tasks |-> total,
         completed_tasks |-> completed,
         cancelled_tasks |-> cancelled,
         overdue_tasks |-> CountOverdue(acts),
         rate_num |-> IF total > 0 THEN completed ELSE 0,
         rate_den |-> IF total > 0 THEN total ELSE 1,
         todo |-> total - completed - cancelled]

CalculateProductivityStats ==
    /\ statOut = NoStats
    /\ statOut' = ProductivityStats(statActs)
    /\ UNCHANGED statActs

InitStat ==
    /\ statActs \in SeqsUpTo(StatActivity, MaxLen)
    /\ statOut = NoStats

NextStat == CalculateProductivityStats /\ UNCHANGED nonStatVars

(***************************************************************************)
(* AnalyticsWorkerService: task events, the activities collection and      *)
(* analytics generation (analytics_worker.py, lines 154-276, 322-430)      *)
(***************************************************************************)
MIN_TASKS_FOR_ANALYSIS == 5

\* Bound on the number of documents in the activities collection.
MaxActivities == 5

AnaUsers == {1, 2}
AnaTasks == {1, 2}
\* The owner of a task: the user_id every event about the task carries.
TaskOwner(task) == task
\* changes["status"]["to"] of a task.updated event; "none": status not changed.
StatusTos == {"none", "in_progress", "completed", "cancelled"}

\* A document of the activities collection.  recent: its timestamp lies in the
\* period [start_date, end_date] that analytics are generated for.
ActivityDoc(task, action, recent) ==
    [user_id |-> TaskOwner(task), task_id |-> task, action |-> action,
     recent |-> recent, was_overdue |-> FALSE]

\* _store_activity (lines 306-320): POST /activities
StoreActivity(doc) == activities (+) SetToBag({doc})

\* lines 209-217: the action recorded for a task.updated event
UpdatedAction(statusTo) ==
    IF statusTo = "none" THEN "updated"
    ELSE IF statusTo = "completed" THEN "completed"
    ELSE IF statusTo = "cancelled" THEN "cancelled"
    ELSE "status_changed"

\* _invalidate_user_stats_cache (lines 591-596)
InvalidateUserStatsCache(u) == [user_analytics EXCEPT ![u] = NoStats]

\* _process_task_created_event (lines 173-203), with _track_creation_patterns
\* (lines 322-343) writing the creation_pattern:{user_id}:* keys.
ProcessTaskCreatedEvent(task, recent) ==
    /\ BagCardinality(activities) < MaxActivities
    /\ activities' = StoreActivity(ActivityDoc(task, "created", recent))
    /\ user_analytics' = InvalidateUserStatsCache(TaskOwner(task))
    /\ creation_pattern' = creation_pattern \cup {TaskOwner(task)}
    /\ anaCall' = [op |-> "event", users |-> {}, stored |-> {}]
    /\ UNCHANGED mongo_stats

\* _process_task_updated_event (lines 205-240)
ProcessTaskUpdatedEvent(task, recent, statusTo) ==
    /\ BagCardinality(activities) < MaxActivities
    /\ activities' = StoreActivity(ActivityDoc(task, UpdatedAction(statusTo), recent))
    /\ user_analytics' = InvalidateUserStatsCache(TaskOwner(task))
    /\ anaCall' = [op |-> "event", users |-> {}, stored |-> {}]
    /\ UNCHANGED <<creation_pattern, mongo_stats>>

\* _process_task_completed_event (lines 242-276)
ProcessTaskCompletedEvent(task, recent) ==
    /\ BagCardinality(activities) < MaxActivities
    /\ activities' = StoreActivity(ActivityDoc(task, "completed", recent))
    /\ user_analytics' = InvalidateUserStatsCache(TaskOwner(task))
    /\ anaCall' = [op |-> "event", users |-> {}, stored |-> {}]
    /\ UNCHANGED <<creation_pattern, mongo_stats>>

\* _get_user_activities (lines 432-460): the user's documents of the period.
UserActivities(u) ==
    LET docs == {d \in BagToSet(activities) : d.user_id = u /\ d.recent}
    IN  [d \in docs |-> activities[d]]

RECURSIVE BagAsSeq(_)
BagAsSeq(b) ==
    IF BagToSet(b) = {} THEN <<>>
    ELSE LET d == CHOOSE x \in BagToSet(b) : TRUE
         IN  <<d>> \o BagAsSeq(b (-) SetToBag({d}))

\* lines 387-389: if len(activities) < MIN_TASKS_FOR_ANALYSIS: return
EnoughData(u) == BagCardinality(UserActivities(u)) >= MIN_TASKS_FOR_ANALYSIS

\* The users whose statistics a run over `users` stores and caches.
StoredFor(users) == {u \in users : EnoughData(u)}

\* The stores after _generate_analytics_for_user (lines 377-403) has run for
\* each user of `users`: _store_productivity_stats and _cache_user_stats.
GenerateFor(users) ==
    /\ mongo_stats' = [u \in AnaUsers |->
           IF u \in StoredFor(users)
           THEN ProductivityStats(BagAsSeq(UserActivities(u)))
           ELSE mongo_stats[u]]
    /\ user_analytics' = [u \in AnaUsers |->
           IF u \in StoredFor(users)
           THEN ProductivityStats(BagAsSeq(UserActivities(u)))
           ELSE user_analytics[u]]

\* _generate_user_analytics with command.user_id set (lines 365-369)
GenerateAnalyticsForUser(u) ==
    /\ GenerateFor({u})
    /\ anaCall' = [op |-> "user", users |-> {u}, stored |-> StoredFor({u})]
    /\ UNCHANGED <<activities, creation_pattern>>

\* lines 408-419: the user ids found in the keys matching creation_pattern:*
ActiveUsers == creation_pattern

\* _generate_analytics_for_all_users (lines 405-430), run by
\* _periodic_analytics_generation and by a command without user_id.
GenerateAnalyticsForAllUsers ==
    /\ GenerateFor(ActiveUsers)
    /\ anaCall' = [op |-> "all", users |-> ActiveUsers, stored |-> StoredFor(ActiveUsers)]
    /\ UNCHANGED <<activities, creation_pattern>>

InitAna ==
    /\ activities = EmptyBag
    /\ creation_pattern = {}
    /\ mongo_stats = [u \in AnaUsers |-> NoStats]
    /\ user_analytics = [u \in AnaUsers |-> NoStats]
    /\ anaCall = [op |-> "none", users |-> {}, stored |-> {}]

NextAna ==
    \/ \E task \in AnaTasks, recent \in BOOLEAN :
          ProcessTaskCreatedEvent(task, recent) /\ UNCHANGED nonAnaVars
    \/ \E task \in AnaTasks, recent \in BOOLEAN, statusTo \in StatusTos :
          ProcessTaskUpdatedEvent(task, recent, statusTo) /\ UNCHANGED nonAnaVars
    \/ \E task \in AnaTasks, recent \in BOOLEAN :
          ProcessTaskCompletedEvent(task, recent) /\ UNCHANGED nonAnaVars
    \/ \E u \in AnaUsers : GenerateAnalyticsForUser(u) /\ UNCHANGED nonAnaVars
    \/ GenerateAnalyticsForAllUsers /\ UNCHANGED nonAnaVars

(***************************************************************************)
(* Task API: routes and TaskService (api_service.py)                       *)
(***************************************************************************)
ApiUsers == {1, 2}
ApiTaskIds == {1, 2}
Statuses == {"todo", "in_progress", "completed"}
NoTask == [none |-> TRUE]
Deleted == [deleted |-> TRUE]

\* A path is the sequence of its segments; "{task_id}" is a path parameter.
TasksPath == <<"api", "v1", "tasks">>
StatsPath == <<"api", "v1", "tasks", "stats">>
TaskPath(seg) == <<"api", "v1", "tasks", seg>>
RemindersPath(seg) == <<"api", "v1", "tasks", seg, "reminders">>

\* The routes in the order the module registers them (lines 584-686).
Routes == <<
    [method |-> "GET",    path |-> <<"health">>,               handler |-> "health_check"],
    [method |-> "POST",   path |-> TasksPath,                  handler |-> "create_task"],
    [method |-> "GET",    path |-> TaskPath("{task_id}"),      handler |-> "get_task"],
    [method |-> "PUT",    path |-> TaskPath("{task_id}"),      handler |-> "update_task"],
    [method |-> "DELETE", path |-> TaskPath("{task_id}"),      handler |-> "delete_task"],
    [method |-> "GET",    path |-> TasksPath,                  handler |-> "list_tasks"],
    [method |-> "GET",    path |-> StatsPath,                  handler |-> "get_task_stats"],
    [method |-> "POST",   path |-> RemindersPath("{task_id}"), handler |-> "create_reminder"] >>

Methods == {"GET", "POST", "PUT", "DELETE"}
RequestPaths == {<<"health">>, TasksPath, StatsPath, TaskPath("1"), TaskPath("2"),
                 RemindersPath("1"), RemindersPath("stats")}

\* The segments that are decimal integers, and their values.
IntSegments == {"1", "2"}
IntOf(seg) == IF seg = "1" THEN 1 ELSE 2

\* A path parameter matches any one non-empty segment ("[^/]+"): the handler's
\* annotation task_id: int is not part of the route's pattern.
PathMatches(pattern, path) ==
    /\ Len(pattern) = Len(path)
    /\ \A i \in 1..Len(pattern) : pattern[i] = "{task_id}" \/ pattern[i] = path[i]

\* The first route, in registration order, whose path and method match.
FirstFullMatch(method, path) ==
    LET hits == {i \in 1..Len(Routes) :
                    PathMatches(Routes[i].path, path) /\ Routes[i].method = method}
    IN  IF hits = {} THEN 0 ELSE CHOOSE i \in hits : \A j \in hits : i <= j

PathParam(pattern, path) ==
    LET at == {i \in 1..Len(pattern) : pattern[i] = "{task_id}"}
    IN  IF at = {} THEN "" ELSE path[CHOOSE i \in at : TRUE]

\* The handler a request is dispatched to and the status decided before the
\* handler runs: 404 no path matches, 405 only other methods match, 422 the
\* path parameter is not an integer, 200 the handler is called.
Dispatch(method, path) ==
    LET i == FirstFullMatch(method, path)
    IN  IF i = 0
        THEN [handler |-> "none",
              status |-> IF \E k \in 1..Len(Routes) : PathMatches(Routes[k].path, path)
                         THEN 405 ELSE 404,
              task_id |-> 0]
        ELSE LET seg == PathParam(Routes[i].path, path)
             IN  IF seg = "" THEN [handler |-> Routes[i].handler, status |-> 200, task_id |-> 0]
                 ELSE IF seg \in IntSegments
                 THEN [handler |-> Routes[i].handler, status |-> 200, task_id |-> IntOf(seg)]
                 ELSE [handler |-> Routes[i].handler, status |-> 422, task_id |-> 0]

\* The postgres data service, GET /tasks/{task_id}?user_id=: the task when it
\* exists and belongs to the user, else 404.
DataServiceTask(task_id, user_id) ==
    IF db[task_id] \notin {NoTask, Deleted} /\ db[task_id].user_id = user_id
    THEN db[task_id] ELSE NoTask

\* get_task without the ownership test on the cached task.
CachedTaskAnyOwner(task_id, user_id) == task_cache[task_id]

\* TaskService.get_task, lines 189-194: the cached task, if it is the user's.
CachedTask(task_id, user_id) ==
    IF task_cache[task_id] # NoTask /\ task_cache[task_id].user_id = user_id
    THEN task_cache[task_id] ELSE NoTask

\* TaskService.get_task (lines 187-216): what it returns.
GetTask(task_id, user_id) ==
    IF CachedTask(task_id, user_id) # NoTask
    THEN CachedTask(task_id, user_id)
    ELSE DataServiceTask(task_id, user_id)

\* TaskService.get_task: the cache after the call (line 210, _cache_task).
CacheAfterGet(task_id, user_id) ==
    IF CachedTask(task_id, user_id) = NoTask /\ DataServiceTask(task_id, user_id) # NoTask
    THEN [task_cache EXCEPT ![task_id] = DataServiceTask(task_id, user_id)]
    ELSE task_cache

Response(method, path, user, d, status, got) ==
    [method |-> method, path |-> path, user |-> user, handler |-> d.handler,
     task_id |-> d.task_id, status |-> status, got |-> got]

\* A request that no handler runs for (404, 405, 422), or one to a handler that
\* changes neither the tasks nor the task cache.
RouteReadOnly(method, path, user, d) ==
    /\ d.status # 200 \/ d.handler \in {"health_check", "list_tasks", "get_task_stats"}
    /\ apiResp' = Response(method, path, user, d, d.status, NoTask)
    /\ UNCHANGED <<db, task_cache>>

\* POST /api/v1/tasks: TaskService.create_task (lines 144-185)
RouteCreateTask(method, path, user, d, status) ==
    /\ d.status = 200 /\ d.handler = "create_task"
    /\ \E id \in ApiTaskIds :
          /\ db[id] = NoTask
          /\ \A j \in ApiTaskIds : j < id => db[j] # NoTask
          /\ LET task == [id |-> id, user_id |-> user, status |-> status]
             IN  /\ db' = [db EXCEPT ![id] = task]
                 /\ task_cache' = [task_cache EXCEPT ![id] = task]
                 /\ apiResp' = Response(method, path, user, d, 201, NoTask)

\* GET /api/v1/tasks/{task_id} (lines 600-613)
RouteGetTask(method, path, user, d) ==
    /\ d.status = 200 /\ d.handler = "get_task"
    /\ LET task == GetTask(d.task_id, user)
       IN  apiResp' = Response(method, path, user, d,
                               IF task = NoTask THEN 404 ELSE 200, task)
    /\ task_cache' = CacheAfterGet(d.task_id, user)
    /\ UNCHANGED db

\* PUT /api/v1/tasks/{task_id}: TaskService.update_task (lines 218-274)
RouteUpdateTask(method, path, user, d, status) ==
    /\ d.status = 200 /\ d.handler = "update_task"
    /\ LET current == GetTask(d.task_id, user)
       IN  IF current = NoTask
           THEN /\ apiResp' = Response(method, path, user, d, 404, current)
                /\ task_cache' = CacheAfterGet(d.task_id, user)
                /\ UNCHANGED db
           ELSE IF DataServiceTask(d.task_id, user) = NoTask
           THEN \* the PUT fails: the task is cached but gone from the data service
                /\ apiResp' = Response(method, path, user, d, 404, current)
                /\ UNCHANGED <<db, task_cache>>
           ELSE LET updated == [db[d.task_id] EXCEPT !.status = status]
                IN  /\ db' = [db EXCEPT ![d.task_id] = updated]
                    /\ task_cache' = [task_cache EXCEPT ![d.task_id] = updated]
                    /\ apiResp' = Response(method, path, user, d, 200, current)

\* DELETE /api/v1/tasks/{task_id}: TaskService.delete_task (lines 276-300)
RouteDeleteTask(method, path, user, d) ==
    /\ d.status = 200 /\ d.handler = "delete_task"
    /\ IF DataServiceTask(d.task_id, user) = NoTask
       THEN /\ apiResp' = Response(method, path, user, d, 404, NoTask)
            /\ UNCHANGED <<db, task_cache>>
       ELSE /\ db' = [db EXCEPT ![d.task_id] = Deleted]
            /\ task_cache' = [task_cache EXCEPT ![d.task_id] = NoTask]
            /\ apiResp' = Response(method, path, user, d, 204, NoTask)

\* POST /api/v1/tasks/{task_id}/reminders: TaskService.create_reminder
\* (lines 372-394), as far as the tasks and the task cache go.
RouteCreateReminder(method, path, user, d) ==
    /\ d.status = 200 /\ d.handler = "create_reminder"
    /\ LET task == GetTask(d.task_id, user)
       IN  apiResp' = Response(method, path, user, d,
                               IF task = NoTask THEN 404 ELSE 200, task)
    /\ task_cache' = CacheAfterGet(d.task_id, user)
    /\ UNCHANGED db

\* The task:{id} key expires (setex ... 3600); another writer changes a task
\* behind the cache's back is not modelled.
ExpireTaskCache(id) ==
    /\ task_cache[id] # NoTask
    /\ task_cache' = [task_cache EXCEPT ![id] = NoTask]
    /\ UNCHANGED <<db, apiResp>>

InitApi ==
    /\ db = [id \in ApiTaskIds |-> NoTask]
    /\ task_cache = [id \in ApiTaskIds |-> NoTask]
    /\ apiResp = [method |-> "none", path |-> <<>>, user |-> 0, handler |-> "none",
                  task_id |-> 0, status |-> 0, got |-> NoTask]

\* Every request explored, with the handler it is dispatched to.
Requests ==
    {[method |-> m, path |-> p, d |-> Dispatch(m, p)] : m \in Methods, p \in RequestPaths}

RequestsOf(handlers) == {r \in Requests : r.d.status = 200 /\ r.d.handler \in handlers}

ReadOnlyRequests ==
    {r \in Requests : r.d.status # 200
                      \/ r.d.handler \in {"health_check", "list_tasks", "get_task_stats"}}
CreateTaskRequests == RequestsOf({"create_task"})
GetTaskRequests == RequestsOf({"get_task"})
UpdateTaskRequests == RequestsOf({"update_task"})
DeleteTaskRequests == RequestsOf({"delete_task"})
CreateReminderRequests == RequestsOf({"create_reminder"})

NextApi ==
    \/ \E r \in ReadOnlyRequests, user \in ApiUsers :
          RouteReadOnly(r.method, r.path, user, r.d) /\ UNCHANGED nonApiVars
    \/ \E r \in CreateTaskRequests, user \in ApiUsers, status \in Statuses :
          RouteCreateTask(r.method, r.path, user, r.d, status) /\ UNCHANGED nonApiVars
    \/ \E r \in GetTaskRequests, user \in ApiUsers :
          RouteGetTask(r.method, r.path, user, r.d) /\ UNCHANGED nonApiVars
    \/ \E r \in UpdateTaskRequests, user \in ApiUsers, status \in Statuses :
          RouteUpdateTask(r.method, r.path, user, r.d, status) /\ UNCHANGED nonApiVars
    \/ \E r \in DeleteTaskRequests, user \in ApiUsers :
          RouteDeleteTask(r.method, r.path, user, r.d) /\ UNCHANGED nonApiVars
    \/ \E r \in CreateReminderRequests, user \in ApiUsers :
          RouteCreateReminder(r.method, r.path, user, r.d) /\ UNCHANGED nonApiVars
    \/ \E id \in ApiTaskIds : ExpireTaskCache(id) /\ UNCHANGED nonApiVars

(***************************************************************************)
(* Scheduled reminders: TaskService.create_reminder (api_service.py, lines *)
(* 372-394) writes the reminder:* keys, _process_scheduled_reminders and   *)
(* _send_scheduled_reminder (reminder_worker.py, lines 407-474) use them.  *)
(* Datetimes are naive UTC, as create_reminder and utcnow() produce them.  *)
(***************************************************************************)
RemTasks == {1, 2}
RemindAts == {10, 20}
CheckTimes == {5, 10, 15, 20}
\* The key reminder:{task_id}:{remind_at} as <<task_id, remind_at>>.
ReminderKeys == RemTasks \X RemindAts
TaskStatuses == {"todo", "in_progress", "completed", "cancelled"}
\* The status code of GET /api/v1/tasks/{task_id} as the worker sees it.
HttpStatuses == {200, 404}

\* line 422: if remind_at <= current_time, with the bound exclusive.
ReminderDueStrict(remind_at, check_time) == remind_at < check_time

\* line 422: if remind_at <= current_time
ReminderDue(remind_at, check_time) == remind_at <= check_time

\* The status test with CANCELLED left out.
ReminderSuppressedOnlyCompleted(status) == status = "completed"

\* lines 449-451: if task.status in [TaskStatus.COMPLETED, TaskStatus.CANCELLED]: return
ReminderSuppressedByStatus(status) == status \in {"completed", "cancelled"}

\* _send_scheduled_reminder (lines 433-474): the notification is sent when the
\* task API answers 200, the task is not completed or cancelled and the user
\* has a Telegram session; every exception is caught and logged.
SendScheduledReminder(http, status, session) ==
    /\ http = 200
    /\ ~ReminderSuppressedByStatus(status)
    /\ session

SchedIdle(op) ==
    [op |-> op, check_time |-> 0, before |-> {}, passed |-> {},
     suppressed |-> {}, notified |-> {}]

\* _process_scheduled_reminders (lines 407-431), one call: every live key is
\* read; a due one is passed to _send_scheduled_reminder and then deleted.
ProcessScheduledReminders(check_time, http, session) ==
    LET passed == {k \in reminders : ReminderDue(k[2], check_time)}
        sent == {k \in passed :
                    SendScheduledReminder(http[k[1]], taskStatus[k[1]], session[k[1]])}
    IN  /\ reminders' = reminders \ passed
        /\ schedSent' = [k \in ReminderKeys |->
                            IF k \in sent THEN schedSent[k] + 1 ELSE schedSent[k]]
        /\ schedCall' = [op |-> "process", check_time |-> check_time,
                         before |-> reminders, passed |-> passed,
                         suppressed |-> {k \in passed :
                             http[k[1]] = 200 /\ ReminderSuppressedByStatus(taskStatus[k[1]])},
                         notified |-> {<<k, taskStatus[k[1]]>> : k \in sent}]
        /\ UNCHANGED taskStatus

\* TaskService.create_reminder (lines 372-394): setex reminder:{task_id}:{remind_at}
CreateReminder(task, remind_at) ==
    /\ reminders' = reminders \cup {<<task, remind_at>>}
    /\ schedSent' = [schedSent EXCEPT ![<<task, remind_at>>] = 0]
    /\ schedCall' = SchedIdle("create")
    /\ UNCHANGED taskStatus

\* The key's TTL (remind_at - utcnow() + 3600 seconds) runs out.
ExpireReminder(k) ==
    /\ k \in reminders
    /\ reminders' = reminders \ {k}
    /\ schedCall' = SchedIdle("expire")
    /\ UNCHANGED <<taskStatus, schedSent>>

\* The task's status changes in the task API.
TaskStatusChange(task, status) ==
    /\ taskStatus[task] # status
    /\ taskStatus' = [taskStatus EXCEPT ![task] = status]
    /\ schedCall' = SchedIdle("status")
    /\ UNCHANGED <<reminders, schedSent>>

InitSched ==
    /\ reminders = {}
    /\ taskStatus = [task \in RemTasks |-> "todo"]
    /\ schedSent = [k \in ReminderKeys |-> 0]
    /\ schedCall = SchedIdle("none")

NextSched ==
    \/ \E check_time \in CheckTimes, http \in [RemTasks -> HttpStatuses],
          session \in [RemTasks -> BOOLEAN] :
          ProcessScheduledReminders(check_time, http, session) /\ UNCHANGED nonSchedVars
    \/ \E task \in RemTasks, remind_at \in RemindAts :
          CreateReminder(task, remind_at) /\ UNCHANGED nonSchedVars
    \/ \E k \in ReminderKeys : ExpireReminder(k) /\ UNCHANGED nonSchedVars
    \/ \E task \in RemTasks, status \in TaskStatuses :
          TaskStatusChange(task, status) /\ UNCHANGED nonSchedVars

(***************************************************************************)
(* validate_naming.check_docker_compose_files (validate_naming.py, lines   *)
(* 31-80).  A name is the sequence of its pieces: "w" a lowercase word,    *)
(* "api" a service type, "redis" an infrastructure name, "_", "-", and "9" *)
(* a digit.  A line is its indentation and the key before the colon.       *)
(***************************************************************************)
\* Bound on the number of lines of the compose file explored.
MaxLines == 3

LowerPieces == {"w", "api", "redis"}
TypePieces == {"api"}

ServiceNames == { <<"w", "_", "w", "_", "api">>,
                  <<"w", "_", "api">>,
                  <<"redis">>,
                  <<"w", "-", "w", "-", "api">>,
                  <<"w", "9", "_", "w", "_", "api">> }

ServicesHeader == [indent |-> 0, key |-> "services", name |-> <<>>]

ComposeLines ==
    {ServicesHeader}
    \cup [indent : {0}, key : {"other"}, name : {<<"w">>}]
    \cup [indent : {2, 4}, key : {"other"}, name : ServiceNames]

\* line 21: ^[a-z]+_[a-z_]+_(api|bot|worker|gateway|stream|scheduler|cli|webhook)$
ValidServicePattern(name) ==
    /\ Len(name) >= 5
    /\ name[Len(name)] \in TypePieces
    /\ name[Len(name) - 1] = "_"
    /\ \E i \in 2..(Len(name) - 3) :
          /\ name[i] = "_"
          /\ \A j \in 1..(i - 1) : name[j] \in LowerPieces
          /\ \A j \in (i + 1)..(Len(name) - 2) : name[j] \in LowerPieces \cup {"_"}

\* lines 24-28: service in INFRASTRUCTURE_SERVICES
InfrastructureService(name) == name = <<"redis">>

\* line 67: re.match(r'^  ([a-z_]+):', line)
ServiceLineMatch(line) ==
    /\ line.indent = 2
    /\ line.name # <<>>
    /\ \A j \in 1..Len(line.name) : line.name[j] \in LowerPieces \cup {"_"}

\* lines 54-77: the loop over the lines of one file, from line i on.
RECURSIVE ScanCompose(_, _, _)
ScanCompose(lines, i, in_services) ==
    IF i > Len(lines) THEN <<>>
    ELSE IF lines[i].key = "services" THEN ScanCompose(lines, i + 1, TRUE)
    ELSE LET still == in_services /\ lines[i].indent # 0
             reported == /\ still
                         /\ ServiceLineMatch(lines[i])
                         /\ ~InfrastructureService(lines[i].name)
                         /\ ~ValidServicePattern(lines[i].name)
         IN  (IF reported THEN <<lines[i].name>> ELSE <<>>)
             \o ScanCompose(lines, i + 1, still)

\* check_docker_compose_files for one docker-compose*.yml file.
CheckDockerComposeFiles(lines) ==
    /\ namingCall.op = "none"
    /\ namingCall' = [op |-> "check", lines |-> lines, errors |-> ScanCompose(lines, 1, FALSE)]

InitNaming == namingCall = [op |-> "none", lines |-> <<>>, errors |-> <<>>]

NextNaming ==
    \E lines \in SeqsUpTo(ComposeLines, MaxLines) :
        CheckDockerComposeFiles(lines) /\ UNCHANGED nonNamingVars

(***************************************************************************)
(* TaskBotService.process_file_attachment (bot_service.py, lines 419-478)  *)
(***************************************************************************)
MAX_FILE_SIZE == 10485760

\* Telegram may give no file_size: None, written -1.
NoSize == -1
FileSizes == {0, 1, MAX_FILE_SIZE - 1, MAX_FILE_SIZE, MAX_FILE_SIZE + 1, NoSize}
\* lines 67-71
ALLOWED_FILE_TYPES == {"image/jpeg", "application/pdf"}
ContentTypes == ALLOWED_FILE_TYPES \cup {"application/octet-stream", "video/mp4"}
BotUsers == {1, 2}
\* task_id: Optional[int]; 0 stands for None.
AttachTaskIds == {0, 1, 2}

\* The size test accepting one byte more.
FileTooLargeOffByOne(file_size) == file_size > MAX_FILE_SIZE + 1

\* line 432: if file_size > settings.MAX_FILE_SIZE
FileTooLarge(file_size) == file_size > MAX_FILE_SIZE

\* line 438: if content_type not in settings.ALLOWED_FILE_TYPES
FileTypeNotAllowed(content_type) == content_type \notin ALLOWED_FILE_TYPES

NoEvent == [none |-> TRUE]

\* One call.  publish_ok: whether _publish_event (lines 480-497), which
\* catches and logs every exception, got the message out.
ProcessFileAttachment(user, file_size, content_type, task_id, publish_ok) ==
    LET call == [op |-> "attach", user |-> user, file_size |-> file_size,
                 content_type |-> content_type, task_id |-> task_id]
    IN  IF file_size = NoSize
        THEN \* None > int raises TypeError: the except branch, lines 473-478
             attachCall' = call @@ [success |-> FALSE, reached_publish |-> FALSE,
                                    published |-> NoEvent]
        ELSE IF FileTooLarge(file_size) \/ FileTypeNotAllowed(content_type)
        THEN attachCall' = call @@ [success |-> FALSE, reached_publish |-> FALSE,
                                    published |-> NoEvent]
        ELSE attachCall' = call @@
                 [success |-> TRUE, reached_publish |-> TRUE,
                  published |-> IF publish_ok
                                THEN [event_type |-> "attachment.uploaded",
                                      task_id |-> task_id, user_id |-> user,
                                      size |-> file_size, content_type |-> content_type]
                                ELSE NoEvent]

InitAttach ==
    attachCall = [op |-> "none", user |-> 0, file_size |-> 0, content_type |-> "",
                  task_id |-> 0, success |-> FALSE, reached_publish |-> FALSE, published |-> NoEvent]

NextAttach ==
    \E user \in BotUsers, file_size \in FileSizes, content_type \in ContentTypes,
       task_id \in AttachTaskIds, publish_ok \in BOOLEAN :
        ProcessFileAttachment(user, file_size, content_type, task_id, publish_ok)
        /\ UNCHANGED nonAttachVars

(***************************************************************************)
(* Worker template: setup_signal_handlers, main() and ScheduledTaskRunner  *)
(* (worker_service_template.py)                                            *)
(***************************************************************************)

\* the runner stops starting iterations at this clock value
MaxTime == 40

\* asyncio.sleep(10) at the end of every iteration
RUNNER_SLEEP_SECONDS == 10

\* last_run of a task that never completed a run (None)
NoRun == -1

\* the tasks registered by add_task, in insertion order, and their intervals
RunnerTaskNames == <<"a", "b">>

RunnerTaskSet == {"a", "b"}

RunnerInterval == [a |-> 10, b |-> 30]

\* how long one call of a task function takes
TaskDurations == {0, 10}

NoTaskStep ==
    [op |-> "none", task |-> "a", current_time |-> 0, due |-> FALSE,
     ran |-> FALSE, raised |-> FALSE, next_run_before |-> 0,
     last_run_before |-> NoRun, next_run_after |-> 0,
     last_run_after |-> NoRun, pc_after |-> "none", idx_before |-> 0,
     idx_after |-> 0]

\* add_task: next_run is now when run_immediately, now + interval otherwise
AddTask(name, run_immediately, utcnow) ==
    [interval |-> RunnerInterval[name],
     next_run |-> IF run_immediately THEN utcnow
                  ELSE utcnow + RunnerInterval[name],
     last_run |-> NoRun]

\* while self.running and not shutdown_event.is_set()
RunnerLoopTestRunningOnly(is_running, event_set) == is_running

RunnerLoopTest(is_running, event_set) == is_running /\ ~event_set

\* if current_time >= task_info["next_run"]
TaskDue(cur, next_run) == cur >= next_run

\* next_run after the task function raised
NextRunAfterFailureUnchanged(cur, task_info) == task_info.next_run

NextRunAfterFailure(cur, task_info) == cur + task_info.interval

\* the task entry after the task function returned
TaskAfterSuccess(cur, task_info) ==
    [task_info EXCEPT !.last_run = cur, !.next_run = cur + task_info.interval]

\* the task entry after the task function raised
TaskAfterFailure(cur, task_info) ==
    [task_info EXCEPT !.next_run = NextRunAfterFailure(cur, task_info)]

\* signal_handler: SIGINT or SIGTERM sets shutdown_event
SignalHandler ==
    /\ ~shutdown_event
    /\ mainPc # "exited"
    /\ shutdown_event' = TRUE
    /\ UNCHANGED <<wnow, runner_running, runnerPc, current_time, taskIdx,
                   schedTasks, mainPc, closed, wLast>>

\* main() up to asyncio.create_task(scheduler.start()); a failure of the
\* set-up raises, is logged, and sys.exit(1) runs the finally block
MainSetup(ok, imm) ==
    /\ mainPc = "setup"
    /\ IF ok
       THEN /\ schedTasks' = [n \in RunnerTaskSet |-> AddTask(n, imm[n], wnow)]
            /\ runnerPc' = "start"
            /\ mainPc' = "wait"
       ELSE /\ mainPc' = "finally"
            /\ UNCHANGED <<schedTasks, runnerPc>>
    /\ UNCHANGED <<wnow, shutdown_event, runner_running, current_time,
                   taskIdx, closed, wLast>>

\* await shutdown_event.wait(); scheduler.stop()
MainStop ==
    /\ mainPc = "wait"
    /\ shutdown_event
    /\ runner_running' = FALSE
    /\ mainPc' = "await_scheduler"
    /\ UNCHANGED <<wnow, shutdown_event, runnerPc, current_time, taskIdx,
                   schedTasks, closed, wLast>>

\* await scheduler_task
MainAwaitScheduler ==
    /\ mainPc = "await_scheduler"
    /\ runnerPc = "done"
    /\ mainPc' = "finally"
    /\ UNCHANGED <<wnow, shutdown_event, runner_running, runnerPc,
                   current_time, taskIdx, schedTasks, closed, wLast>>

\* finally: close the RabbitMQ connection and the HTTP client
MainFinally ==
    /\ mainPc = "finally"
    /\ closed' = TRUE
    /\ mainPc' = "exited"
    /\ UNCHANGED <<wnow, shutdown_event, runner_running, runnerPc,
                   current_time, taskIdx, schedTasks, wLast>>

\* start(): self.running = True
RunnerStart ==
    /\ runnerPc = "start"
    /\ runner_running' = TRUE
    /\ runnerPc' = "test"
    /\ UNCHANGED <<wnow, shutdown_event, current_time, taskIdx, schedTasks,
                   mainPc, closed, wLast>>

\* the while test; a true test starts an iteration with current_time = now
RunnerTest ==
    /\ runnerPc = "test"
    /\ IF RunnerLoopTest(runner_running, shutdown_event)
       THEN /\ wnow < MaxTime
            /\ current_time' = wnow
            /\ taskIdx' = 1
            /\ runnerPc' = "loop"
       ELSE /\ runnerPc' = "done"
            /\ UNCHANGED <<current_time, taskIdx>>
    /\ UNCHANGED <<wnow, shutdown_event, runner_running, schedTasks, mainPc,
                   closed, wLast>>

\* one pass of the for loop: the task is run when due, and its function
\* returns or raises after dur seconds
RunnerTask(raises, dur) ==
    /\ runnerPc = "loop"
    /\ taskIdx <= Len(RunnerTaskNames)
    /\ LET name == RunnerTaskNames[taskIdx]
           info == schedTasks[name]
           due  == TaskDue(current_time, info.next_run)
           after == IF ~due THEN info
                    ELSE IF raises THEN TaskAfterFailure(current_time, info)
                    ELSE TaskAfterSuccess(current_time, info)
       IN  /\ schedTasks' = [schedTasks EXCEPT ![name] = after]
           /\ wnow' = IF due THEN wnow + dur ELSE wnow
           /\ taskIdx' = taskIdx + 1
           /\ wLast' = [op |-> "task", task |-> name,
                        current_time |-> current_time, due |-> due,
                        ran |-> due, raised |-> due /\ raises,
                        next_run_before |-> info.next_run,
                        last_run_before |-> info.last_run,
                        next_run_after |-> after.next_run,
                        last_run_after |-> after.last_run,
                        pc_after |-> "loop", idx_before |-> taskIdx,
                        idx_after |-> taskIdx + 1]
    /\ UNCHANGED <<shutdown_event, runner_running, runnerPc, current_time,
                   mainPc, closed>>

\* the for loop is over: await asyncio.sleep(10), then back to the while test
RunnerSleep ==
    /\ runnerPc = "loop"
    /\ taskIdx > Len(RunnerTaskNames)
    /\ wnow' = wnow + RUNNER_SLEEP_SECONDS
    /\ runnerPc' = "test"
    /\ UNCHANGED <<shutdown_event, runner_running, current_time, taskIdx,
                   schedTasks, mainPc, closed, wLast>>

InitWorker ==
    /\ wnow = 0
    /\ shutdown_event = FALSE
    /\ runner_running = FALSE
    /\ runnerPc = "not_started"
    /\ current_time = 0
    /\ taskIdx = 0
    /\ schedTasks = [n \in RunnerTaskSet |-> AddTask(n, FALSE, 0)]
    /\ mainPc = "setup"
    /\ closed = FALSE
    /\ wLast = NoTaskStep

RunnerStep ==
    \/ RunnerStart
    \/ RunnerTest
    \/ \E raises \in BOOLEAN, dur \in TaskDurations : RunnerTask(raises, dur)
    \/ RunnerSleep

MainStep ==
    \/ \E ok \in BOOLEAN, imm \in [RunnerTaskSet -> BOOLEAN] : MainSetup(ok, imm)
    \/ MainStop
    \/ MainAwaitScheduler
    \/ MainFinally

NextWorker ==
    \/ SignalHandler /\ UNCHANGED nonWorkerVars
    \/ (\E ok \in BOOLEAN, imm \in [RunnerTaskSet -> BOOLEAN] :
            MainSetup(ok, imm)) /\ UNCHANGED nonWorkerVars
    \/ MainStop /\ UNCHANGED nonWorkerVars
    \/ MainAwaitScheduler /\ UNCHANGED nonWorkerVars
    \/ MainFinally /\ UNCHANGED nonWorkerVars
    \/ RunnerStart /\ UNCHANGED nonWorkerVars
    \/ RunnerTest /\ UNCHANGED nonWorkerVars
    \/ (\E raises \in BOOLEAN, dur \in TaskDurations :
            RunnerTask(raises, dur)) /\ UNCHANGED nonWorkerVars
    \/ RunnerSleep /\ UNCHANGED nonWorkerVars

(***************************************************************************)
(* validate_atomic_docs.py: DocumentValidator.validate and main() run      *)
(* without a file argument                                                 *)
(***************************************************************************)

\* Bound on the *.md files found under docs/atomic.
MaxDocs == 2

DocNames == {"README.md", "CHANGELOG.md", "basic-setup.md"}

\* line 248: the names main() leaves out
ExcludedDocNames == {"README.md", "TEMPLATE.md", "CHANGELOG.md"}

\* A document, by what the checks that append errors look for in its content:
\* h1: the stripped content starts with "# "; h1_placeholder: the first line
\* has "{" and "}"; related: "## Related Documents" occurs; stub: "TODO:
\* Populate authoritative guidance" occurs; guide: "Category-Specific Section
\* Guide" occurs; refonly: "FOR REFERENCE ONLY" occurs.
AtomicDocs ==
    {d \in [name : DocNames, h1 : BOOLEAN, h1_placeholder : BOOLEAN,
            related : BOOLEAN, stub : BOOLEAN, guide : BOOLEAN,
            refonly : BOOLEAN] : d.h1_placeholder => d.h1}

\* DocumentValidator.validate: the errors, in the order the checks append them
ValidateErrors(d) ==
    (IF ~d.h1 THEN <<"Missing H1 title">>
     ELSE IF d.h1_placeholder THEN <<"H1 title contains placeholder">>
     ELSE <<>>)
    \o (IF ~d.related THEN <<"Missing Related Documents">> ELSE <<>>)
    \o (IF d.stub THEN <<"Document is a TODO stub">> ELSE <<>>)
    \o (IF d.guide THEN <<"Category-Specific Section Guide">> ELSE <<>>)
    \o (IF d.refonly THEN <<"Reference-only sections">> ELSE <<>>)

\* line 260: any("TODO stub" in error for error in errors)
IsTodoStub(errors) ==
    \E i \in 1..Len(errors) : errors[i] = "Document is a TODO stub"

\* lines 255-271: the counters after the files from index i on
RECURSIVE CountDocs(_, _, _)
CountDocs(files, i, c) ==
    IF i > Len(files) THEN c
    ELSE LET errors == ValidateErrors(files[i])
         IN  IF IsTodoStub(errors)
             THEN CountDocs(files, i + 1, [c EXCEPT !.stub_count = @ + 1])
             ELSE IF Len(errors) = 0
             THEN CountDocs(files, i + 1, [c EXCEPT !.valid_count = @ + 1])
             ELSE CountDocs(files, i + 1, [c EXCEPT !.invalid_count = @ + 1])

\* main() without a file argument; found is what rglob("*.md") returns
ValidateAllDocs(dir_exists, found) ==
    /\ docCall.op = "none"
    /\ LET files == SelectSeq(found, LAMBDA d : d.name \notin ExcludedDocNames)
           c == CountDocs(files, 1, [valid_count |-> 0, invalid_count |-> 0,
                                     stub_count |-> 0])
       IN  docCall' =
              IF ~dir_exists
              THEN [op |-> "main", dir_exists |-> FALSE, found |-> found,
                    files |-> <<>>, valid_count |-> 0, invalid_count |-> 0,
                    stub_count |-> 0, exit |-> 1]
              ELSE [op |-> "main", dir_exists |-> TRUE, found |-> found,
                    files |-> files, valid_count |-> c.valid_count,
                    invalid_count |-> c.invalid_count,
                    stub_count |-> c.stub_count,
                    exit |-> IF c.invalid_count = 0 THEN 0 ELSE 1]

InitDocs ==
    docCall = [op |-> "none", dir_exists |-> FALSE, found |-> <<>>,
               files |-> <<>>, valid_count |-> 0, invalid_count |-> 0,
               stub_count |-> 0, exit |-> 0]

NextDocs ==
    \/ (/\ docCall.op = "none"
        /\ \E found \in SeqsUpTo(AtomicDocs, MaxDocs) :
              ValidateAllDocs(TRUE, found)) /\ UNCHANGED nonDocsVars
    \/ ValidateAllDocs(FALSE, <<>>) /\ UNCHANGED nonDocsVars

(***************************************************************************)
(* TaskService.update_task (api_service.py, lines 218-274) with the events *)
(* it publishes, over the tasks and the task cache of the API service      *)
(***************************************************************************)
nonApiUpdVars ==
    <<remVars, retryVars, shutVars, statVars, anaVars, schedVars, namingVars,
      attachVars, workerVars, docsVars>>

\* lines 253-258: the event update_task hands to _publish_event
UpdateEventType(current, updated) ==
    IF updated.status = "completed" /\ current.status # "completed"
    THEN "task.completed" ELSE "task.updated"

\* _publish_event (lines 488-505): the event is published, or the failure is
\* logged and swallowed
PublishedEvents(event_type, publish_ok) ==
    IF publish_ok THEN <<event_type>> ELSE <<>>

\* update_task: put_ok is whether the PUT to the data service succeeds when the
\* task is there, publish_ok whether RabbitMQ accepts the event
UpdateTask(task_id, user, status, put_ok, publish_ok) ==
    LET current == GetTask(task_id, user)
        cache1  == CacheAfterGet(task_id, user)
        call    == [op |-> "update_task", task_id |-> task_id, user |-> user,
                    status |-> status, current |-> current, put_failed |-> FALSE,
                    returned |-> NoTask, events |-> <<>>, handed |-> <<>>,
                    cache_written |-> cache1 # task_cache]
    IN  IF current = NoTask
        THEN /\ updCall' = call
             /\ task_cache' = cache1
             /\ UNCHANGED db
        ELSE IF ~put_ok \/ DataServiceTask(task_id, user) = NoTask
        THEN /\ updCall' = [call EXCEPT !.put_failed = TRUE]
             /\ task_cache' = cache1
             /\ UNCHANGED db
        ELSE LET updated == [db[task_id] EXCEPT !.status = status]
                 event   == UpdateEventType(current, updated)
                 cache2  == [cache1 EXCEPT ![task_id] = updated]
             IN  /\ db' = [db EXCEPT ![task_id] = updated]
                 /\ task_cache' = cache2
                 /\ updCall' = [call EXCEPT
                                  !.returned = updated,
                                  !.handed = <<event>>,
                                  !.events = PublishedEvents(event, publish_ok),
                                  !.cache_written = cache2 # task_cache]

InitUpd ==
    updCall = [op |-> "none", task_id |-> 0, user |-> 0, status |-> "todo",
               current |-> NoTask, put_failed |-> FALSE, returned |-> NoTask,
               events |-> <<>>, handed |-> <<>>, cache_written |-> FALSE]

NextUpd ==
    \/ \E r \in CreateTaskRequests, user \in ApiUsers, status \in Statuses :
          RouteCreateTask(r.method, r.path, user, r.d, status) /\ UNCHANGED nonApiVars
    \/ \E r \in DeleteTaskRequests, user \in ApiUsers :
          RouteDeleteTask(r.method, r.path, user, r.d) /\ UNCHANGED nonApiVars
    \/ \E id \in ApiTaskIds : ExpireTaskCache(id) /\ UNCHANGED nonApiVars
    \/ \E task_id \in ApiTaskIds, user \in ApiUsers, status \in Statuses,
          put_ok \in BOOLEAN, publish_ok \in BOOLEAN :
          UpdateTask(task_id, user, status, put_ok, publish_ok)
          /\ UNCHANGED <<apiResp, nonApiUpdVars>>

(***************************************************************************)
(* Specifications                                                          *)
(***************************************************************************)
IdleRetry == rt = RetryIdle

IdleStat == statActs = <<>> /\ statOut = NoStats

InitReminderSpec == InitRem /\ IdleRetry /\ InitShut /\ IdleStat /\ InitAna /\ InitApi /\ InitSched /\ InitNaming /\ InitAttach /\ InitWorker /\ InitDocs /\ InitUpd
InitRetrySpec == InitRem /\ InitRetry /\ InitShut /\ IdleStat /\ InitAna /\ InitApi /\ InitSched /\ InitNaming /\ InitAttach /\ InitWorker /\ InitDocs /\ InitUpd
InitStatsSpec == InitRem /\ IdleRetry /\ InitShut /\ InitStat /\ InitAna /\ InitApi /\ InitSched /\ InitNaming /\ InitAttach /\ InitWorker /\ InitDocs /\ InitUpd
InitIdle == InitRem /\ IdleRetry /\ InitShut /\ IdleStat /\ InitAna /\ InitApi /\ InitSched /\ InitNaming /\ InitAttach /\ InitWorker /\ InitDocs /\ InitUpd

\* The reminder worker's periodic checks and cleanup.
SpecReminder == InitReminderSpec /\ [][NextRem]_vars

\* One call of a coroutine wrapped by retry_on_failure.  The wrapped coroutine
\* and asyncio.sleep return, so a step that is possible is eventually taken.
SpecRetry == InitRetrySpec /\ [][NextRetry]_vars /\ WF_vars(NextRetry)

\* Start and stop of the two workers.  The event loop runs every background
\* task that can take a step; nothing obliges another service to publish.
SpecShutdown ==
    /\ InitIdle
    /\ [][NextShut]_vars
    /\ \A task \in BgTasks : WF_vars(BgTaskStep(task) /\ UNCHANGED nonShutVars)

\* _calculate_productivity_stats applied to a list of activities.
SpecStats == InitStatsSpec /\ [][NextStat]_vars

\* The analytics worker's event handlers and analytics generation.
SpecAnalytics == InitIdle /\ [][NextAna]_vars

\* Requests to the task API.
SpecApi == InitIdle /\ [][NextApi]_vars

\* Scheduled reminders: creation, expiry, status changes and processing.
SpecScheduled == InitIdle /\ [][NextSched]_vars

\* check_docker_compose_files applied to a compose file.
SpecNaming == InitIdle /\ [][NextNaming]_vars

\* Calls of process_file_attachment.
SpecAttach == InitIdle /\ [][NextAttach]_vars

\* worker template: main(), the signal handler and the scheduled task runner; the event loop keeps running main() and the scheduler task
SpecWorker == InitIdle /\ [][NextWorker]_vars /\ WF_vars(RunnerStep /\ UNCHANGED nonWorkerVars) /\ WF_vars(MainStep /\ UNCHANGED nonWorkerVars)

\* validate_atomic_docs main() run once without a file argument
SpecDocs == InitIdle /\ [][NextDocs]_vars

\* TaskService.update_task called on tasks that are created, deleted and dropped from the cache
SpecUpdate == InitIdle /\ [][NextUpd]_vars

(***************************************************************************)
(* Properties                                                              *)
(***************************************************************************)
SixHours == 6 * 3600

\* C1: once due_soon_sent:{id} has been written and until it expires, a call of
\* _process_due_soon_task for that task publishes no task.due_soon event, sends
\* no notification and leaves the key alone; so while the key is live at most
\* one due-soon event has been produced for the task since it was written.
C1_DueSoonOncePerKey ==
    /\ [](\A t \in TaskIds : RedisLive(due_soon_sent[t]) => dsWindow[t] <= 1)
    /\ [][(/\ remSteps' = remSteps + 1
           /\ remCall'.op = "due_soon"
           /\ RedisLive(due_soon_sent[remCall'.task]))
          => (/\ ~remCall'.published
              /\ ~remCall'.notified
              /\ due_soon_sent' = due_soon_sent)]_vars

\* A call for a task inside the due-soon window was suppressed by the live key.
C1_Witness ==
    /\ remCall.op = "due_soon"
    /\ remCall.hadKey
    /\ DueSoonWindow(MinutesUntilDue(remCall.dueIn, remCall.tz))
    /\ ~remCall.published
    /\ dsWindow[remCall.task] = 1

C3_DueSoonExactlyInWindow ==
    (remCall.op = "due_soon" /\ ~remCall.hadKey)
    => ((remCall.published /\ remCall.attempted)
        <=> (remCall.dueIn > 0 /\ remCall.dueIn <= DUE_SOON_MINUTES * 60))

RetryDone == rt.pc \in {"returned", "raised"}

AllRaised == \A i \in 1..Len(rt.outcomes) : ~rt.outcomes[i].ok

RetrySafety ==
    /\ rt.invocations = Len(rt.outcomes)
    /\ rt.invocations <= rt.max_retries + 1
    /\ \A i \in 1..(Len(rt.outcomes) - 1) : ~rt.outcomes[i].ok
    /\ rt.pc = "returned" =>
          /\ rt.outcomes # <<>>
          /\ rt.outcomes[Len(rt.outcomes)].ok
          /\ rt.result = rt.outcomes[Len(rt.outcomes)].val
    /\ rt.pc = "raised" =>
          /\ Len(rt.outcomes) = rt.max_retries + 1
          /\ AllRaised
          /\ rt.result = rt.outcomes[Len(rt.outcomes)].val
    /\ (Len(rt.outcomes) = rt.max_retries + 1 /\ AllRaised) => rt.pc = "raised"

\* C4: the wrapped coroutine is invoked at most max_retries + 1 times; the
\* wrapper returns the result of the first invocation that succeeds and invokes
\* it no more; when all max_retries + 1 invocations raise it raises the last
\* exception; and it terminates.
C4_RetryContract == []RetrySafety /\ <>RetryDone

\* Every attempt was used and failed, and the last exception was raised.
C4_Witness ==
    /\ rt.pc = "raised"
    /\ rt.max_retries >= 2
    /\ rt.invocations = rt.max_retries + 1
    /\ Len(rt.slept) = rt.max_retries

\* C5: after stop(), every background task of the service ends and start()
\* returns, also when no further message arrives.
C5_GracefulShutdown ==
    /\ [](stopCalled["reminder"] => <>StartReturned("reminder"))
    /\ [](stopCalled["analytics"] => <>StartReturned("analytics"))

\* C6: the statistics have completed_tasks <= total_tasks, that is a
\* completion_rate between 0 and 1.
C6_CompletionRateAtMostOne ==
    statOut # NoStats =>
        /\ statOut.completed_tasks <= statOut.total_tasks
        /\ 0 <= statOut.rate_num
        /\ statOut.rate_num <= statOut.rate_den

C8_StatsRouteReachesStatsHandler ==
    (apiResp.method = "GET" /\ apiResp.path = StatsPath)
    => (apiResp.handler = "get_task_stats" /\ apiResp.status = 200)

\* The users with an activity of any type in the period.
UsersWithActivity == {d.user_id : d \in {x \in BagToSet(activities) : x.recent}}

\* C9: a run of _generate_analytics_for_all_users generates analytics for every
\* user with activity in the period.
C9_AllUsersCoversEveryActiveUser ==
    anaCall.op = "all" => UsersWithActivity \subseteq anaCall.users

\* The number of tasks the user's activities of the period are about.
TasksInPeriod(u) == Cardinality({d.task_id : d \in BagToSet(UserActivities(u))})

\* C10: statistics are stored and cached only for a user with at least
\* MIN_TASKS_FOR_ANALYSIS tasks in the period.
C10_StoredOnlyWithEnoughTasks ==
    \A u \in anaCall.stored : TasksInPeriod(u) >= MIN_TASKS_FOR_ANALYSIS

\* C11: _send_scheduled_reminder sends no notification for a task whose status,
\* as the task API returned it, is completed or cancelled.
C11_NoReminderForClosedTask ==
    schedCall.op = "process" =>
        \A n \in schedCall.notified : n[2] \notin {"completed", "cancelled"}

\* A due reminder of a completed or cancelled task was passed on, the task API
\* answered 200, and nothing was sent for it.
C11_Witness ==
    /\ schedCall.op = "process"
    /\ \E k \in schedCall.suppressed :
          /\ k \in schedCall.passed
          /\ \A n \in schedCall.notified : n[1] # k

ServicesDefined(lines) ==
    {lines[i].name : i \in {k \in 1..Len(lines) :
        /\ lines[k].indent = 2
        /\ \E h \in 1..(k - 1) :
              /\ lines[h] = ServicesHeader
              /\ \A m \in (h + 1)..(k - 1) : lines[m].indent # 0}}

\* C12: check_docker_compose_files reports every service defined under
\* "services:" whose name is neither an infrastructure service nor of the form
\* {context}_{domain}_{type}.
C12_EveryBadServiceNameReported ==
    namingCall.op = "check" =>
        \A name \in ServicesDefined(namingCall.lines) :
            (~InfrastructureService(name) /\ ~ValidServicePattern(name))
            => \E i \in 1..Len(namingCall.errors) : namingCall.errors[i] = name

\* C13: process_file_attachment publishes attachment.uploaded and returns
\* success=True only for a file with file_size <= MAX_FILE_SIZE and an allowed
\* content_type; for any other file it returns success=False and publishes
\* nothing.
C13_AttachmentOnlyWhenValid ==
    (attachCall.op = "attach" /\ (attachCall.success \/ attachCall.published # NoEvent))
    => /\ attachCall.file_size # NoSize
       /\ attachCall.file_size <= MAX_FILE_SIZE
       /\ attachCall.content_type \in ALLOWED_FILE_TYPES

\* A file of exactly MAX_FILE_SIZE bytes and an allowed type was accepted and
\* its event published.
C13_Witness ==
    /\ attachCall.op = "attach"
    /\ attachCall.file_size = MAX_FILE_SIZE
    /\ attachCall.success
    /\ attachCall.published # NoEvent

\* C17: a task of ScheduledTaskRunner runs only when the iteration's
\* current_time has reached its next_run, and every due task of the iteration
\* runs; when its function raises, next_run becomes current_time + interval,
\* last_run keeps its value, and the for loop goes on to the next task.
C17_RunnerRunsDueTasksAndSurvivesFailure ==
    wLast.op = "task" =>
        /\ wLast.ran = (wLast.current_time >= wLast.next_run_before)
        /\ wLast.idx_after = wLast.idx_before + 1
        /\ wLast.pc_after = "loop"
        /\ wLast.raised =>
              /\ wLast.next_run_after =
                    wLast.current_time + RunnerInterval[wLast.task]
              /\ wLast.last_run_after = wLast.last_run_before

\* the second task of an iteration ran although the first one had raised
\* in the same iteration
C17_Witness ==
    /\ wLast.op = "task"
    /\ wLast.task = "b"
    /\ wLast.ran
    /\ schedTasks["a"].next_run = wLast.current_time + RunnerInterval["a"]
    /\ schedTasks["a"].last_run \notin {NoRun, wLast.current_time}

\* C14: graceful shutdown of the worker template.  Once the signal handler
\* has set shutdown_event, ScheduledTaskRunner.start() starts no further
\* iteration; the connections are closed only when the scheduler task has
\* finished (or was never created because the set-up failed); and a set
\* shutdown_event leads to the scheduler task returned and the connections
\* closed.
C14_GracefulShutdownOrder ==
    /\ [][~(shutdown_event /\ runnerPc = "test" /\ runnerPc' = "loop")]_vars
    /\ [](closed => runnerPc \in {"done", "not_started"})
    /\ [](closed /\ runnerPc = "not_started" => mainPc = "exited" /\ taskIdx = 0)
    /\ (shutdown_event ~> (closed /\ runnerPc \in {"done", "not_started"}))

\* the runner ran tasks, the signal arrived, start() returned and main()
\* closed the connections
C14_Witness ==
    /\ shutdown_event
    /\ wLast.op = "task"
    /\ runnerPc = "done"
    /\ ~runner_running
    /\ closed

\* C16: backoff of retry_on_failure.  The k-th sleep (k counted from 0) lasts
\* delay * 2^k, each sleep is twice the one before, a sleep follows every
\* failed attempt but the last, and none follows the final failed attempt.
C16_ExponentialBackoff ==
    /\ \A i \in 1..Len(rt.slept) : rt.slept[i] = rt.delay * 2^(i - 1)
    /\ \A i \in 1..(Len(rt.slept) - 1) : rt.slept[i + 1] = 2 * rt.slept[i]
    /\ rt.pc = "call" => Len(rt.slept) = rt.attempt
    /\ rt.pc = "sleep" => Len(rt.slept) = rt.attempt + 1 /\ rt.attempt < rt.max_retries
    /\ rt.pc = "raised" => /\ rt.invocations = rt.max_retries + 1
                           /\ Len(rt.slept) = rt.max_retries

\* three failed attempts were followed by sleeps of 3, 6 and 12 seconds and
\* the fourth, final failure by none
C16_Witness ==
    /\ rt.pc = "raised"
    /\ rt.max_retries = 3
    /\ rt.slept = <<3, 6, 12>>

\* C15: main() of validate_atomic_docs, run without a file argument, exits
\* with status 0 only if every document found under docs/atomic, other than
\* README.md, TEMPLATE.md and CHANGELOG.md, is validated with no errors.
C15_ExitZeroOnlyIfEveryDocValid ==
    (docCall.op = "main" /\ docCall.exit = 0) =>
        \A i \in 1..Len(docCall.found) :
            docCall.found[i].name \notin {"README.md", "TEMPLATE.md", "CHANGELOG.md"}
                => ValidateErrors(docCall.found[i]) = <<>>

\* C19: a call of update_task that returns the updated task publishes exactly
\* one event, task.completed when the status goes from a non-completed status
\* to completed and task.updated otherwise; a call that returns None (task not
\* found, not the user's, or the data-service update failed) publishes no
\* event and leaves the task cache as it was.
C19_UpdatePublishesOneEventElseNothing ==
    updCall.op = "update_task" =>
        IF updCall.returned # NoTask
        THEN updCall.events =
                <<IF updCall.returned.status = "completed"
                     /\ updCall.current.status # "completed"
                  THEN "task.completed" ELSE "task.updated">>
        ELSE /\ updCall.events = <<>>
             /\ ~updCall.cache_written

====
